---- MODULE Spec2Model ----
(***************************************************************************)
(* Loan eligibility and approval-decision engine of the Teller Banking     *)
(* backend (src/backend/app.py, src/backend/models.py).                    *)
(*                                                                         *)
(* Encoding of Python values:                                              *)
(*   - money is an integer number of currency units;                       *)
(*   - a monthly amount x/12 is kept as the integer x (twelfths), so that  *)
(*     sums and quotients of monthly amounts are exact;                    *)
(*   - a ratio is a pair num/den, compared by cross-multiplication, and    *)
(*     round(ratio, 4) is an integer number of 1/10000;                    *)
(*   - an employment score is an integer number of tenths;                 *)
(*   - an optional number is Null (None) or Num(n);                        *)
(*   - an optional tenure is Absent (None / key missing) or a number of    *)
(*     years;                                                              *)
(*   - a violation entry keeps rule, current_value and required_value; the *)
(*     message text is a formatting of those and is left out; the list     *)
(*     that blocked_risk_flags reports as its current_value is the field   *)
(*     blocked_flags.                                                      *)
(* Quotients and thresholds are computed exactly.  The code computes them  *)
(* in double precision; on every input drawn below the two agree (the      *)
(* sums of twelfths and the quotients involved are exact or round to the   *)
(* same side of each threshold).                                           *)
(***************************************************************************)
EXTENDS Integers, Sequences, FiniteSets, TLC

VARIABLES
    customers,   \* db.customers: customer_id -> customer document
    loans,       \* db.loans: the loan documents, in insertion order
    request,     \* the request handled by the last step
    response,    \* the response (or error) of the last step
    inflight,    \* per worker: the application it is handling, between awaits
    chat         \* the chat page: st.session_state, the widgets of the last
                 \* run, its exception, and the tool calls sent to the backend

vars == <<customers, loans, request, response, inflight, chat>>

----------------------------------------------------------------------------
(* Python values *)

Null == <<>>
Num(n) == <<n>>
\* float('inf')
Inf == <<1, 0>>

Absent == -1

Scale == 10000

\* round(num / den, 4) in units of 1/10000, den > 0 (round half to even)
Round4(num, den) ==
    LET n2 == 2 * num * Scale
        d2 == 2 * den
        q  == n2 \div d2
        r  == n2 % d2
    IN  IF r < den THEN q
        ELSE IF r > den THEN q + 1
        ELSE IF q % 2 = 0 THEN q ELSE q + 1

RECURSIVE SumBalance(_)
\* sum(l["remaining_balance"] / 12 for l in ls), in twelfths
SumBalance(ls) ==
    IF ls = <<>> THEN 0
    ELSE Head(ls).remaining_balance + SumBalance(Tail(ls))

----------------------------------------------------------------------------
(* Python floats (IEEE-754 binary64, round to nearest even) in the monthly
   amounts of Rule 4.  A float v is kept as [x, e] with
   v = x/12 + e/(12 * 2^ErrExp): x/12 is the exact value, e the rounding
   error accumulated so far.  The amounts are integers below 12 * 2^18. *)

\* 2^-ErrExp is the unit in the last place of the smallest monthly amount, 1/12
ErrExp == 56

RECURSIVE log2floor(_)
\* floor(log2(n)), n >= 1
log2floor(n) == IF n < 2 THEN 0 ELSE 1 + log2floor(n \div 2)

\* floor(log2(x / 12)), x >= 1
binade(x) == log2floor((16 * x) \div 12) - 4

\* 2^s mod 12, s >= 2
pow2_mod12(s) == IF s % 2 = 0 THEN 4 ELSE 8

\* x / 12 for an integer x >= 0: an integer quotient is exact, any other
\* is rounded to 53 bits.  With s = 52 - binade(x), the remainder of
\* x * 2^s by 12 is 4 or 8.
fdiv12(x) ==
    IF x % 12 = 0 THEN [x |-> x, e |-> 0]
    ELSE LET s == 52 - binade(x)
             r == ((x % 12) * pow2_mod12(s)) % 12
             t == IF r < 6 THEN 0 - r ELSE 12 - r
         IN  [x |-> x, e |-> t * 2^(ErrExp - s)]

\* a + b for floats a, b >= 0: an integer sum is exact, any other is
\* rounded to 53 bits, which drops its d lowest bits (ties to even)
fadd(a, b) ==
    LET x == a.x + b.x
        e == a.e + b.e
    IN  IF e = 0 /\ x % 12 = 0 THEN [x |-> x, e |-> 0]
        ELSE
        LET k0   == binade(x)
            k    == IF 12 * 2^(k0 + 4) = 16 * x /\ e < 0 THEN k0 - 1 ELSE k0
            s    == 52 - k
            d    == ErrExp - s
            r    == ((x % 12) * pow2_mod12(s)) % 12
            low  == ((2^d * r + e) % (12 * 2^d)) \div 12
            r2   == ((x % 12) * pow2_mod12(s - 1)) % 12
            low2 == ((2^(d + 1) * r2 + e) % (12 * 2^(d + 1))) \div 12
            odd  == low2 >= 2^d
            up   == 2 * low > 2^d \/ (2 * low = 2^d /\ odd)
        IN  IF up THEN [x |-> x, e |-> e + 12 * (2^d - low)]
                  ELSE [x |-> x, e |-> e - 12 * low]

RECURSIVE fsum(_)
\* sum(l.get("remaining_balance", 0) / 12 for l in ls), added left to right
fsum(ls) ==
    IF ls = <<>> THEN [x |-> 0, e |-> 0]
    ELSE fadd(fsum(SubSeq(ls, 1, Len(ls) - 1)), fdiv12(ls[Len(ls)].remaining_balance))

----------------------------------------------------------------------------
(* calculate_employment_score *)

\* variant: the tenure thresholds are exclusive
calculate_employment_score_exclusive(customer) ==
    LET emp_type       == customer.employment_type
        years          == customer.years_with_employer
        business_years == customer.business_years
    IN  IF emp_type = "permanent"
        THEN IF years # Absent /\ years > 2 THEN 10 ELSE 7
        ELSE IF emp_type = "contract" THEN 5
        ELSE IF emp_type \in {"part_time", "part-time"} THEN 3
        ELSE IF emp_type = "self_employed"
        THEN IF business_years # Absent /\ business_years > 3 THEN 6 ELSE 4
        ELSE 0

calculate_employment_score(customer) ==
    LET emp_type       == customer.employment_type
        years          == customer.years_with_employer
        business_years == customer.business_years
    IN  IF emp_type = "permanent"
        THEN IF years # Absent /\ years >= 2 THEN 10 ELSE 7
        ELSE IF emp_type = "contract" THEN 5
        ELSE IF emp_type \in {"part_time", "part-time"} THEN 3
        ELSE IF emp_type = "self_employed"
        THEN IF business_years # Absent /\ business_years >= 3 THEN 6 ELSE 4
        ELSE 0

----------------------------------------------------------------------------
(* LOAN_ELIGIBILITY_RULES and check_loan_eligibility *)

\* variant: late_payment is a blocking flag too
LOAN_ELIGIBILITY_RULES_late_payment_blocked ==
    [ min_credit_score         |-> 500,
      max_active_loans         |-> 5,
      max_dti                  |-> 5000,
      min_annual_income        |-> 12000,
      max_loan_to_income_ratio |-> 5000,
      min_employment_score     |-> 3,
      blocked_risk_flags       |-> <<"bankruptcy", "fraud", "collections", "late_payment">> ]

\* variant: max_dti is 0.60, above max_loan_to_income_ratio
LOAN_ELIGIBILITY_RULES_dti_60 ==
    [ min_credit_score         |-> 500,
      max_active_loans         |-> 5,
      max_dti                  |-> 6000,
      min_annual_income        |-> 12000,
      max_loan_to_income_ratio |-> 5000,
      min_employment_score     |-> 3,
      blocked_risk_flags       |-> <<"bankruptcy", "fraud", "collections">> ]

LOAN_ELIGIBILITY_RULES ==
    [ min_credit_score         |-> 500,
      max_active_loans         |-> 5,
      max_dti                  |-> 5000,     \* 0.50
      min_annual_income        |-> 12000,
      max_loan_to_income_ratio |-> 5000,     \* 0.5
      min_employment_score     |-> 3,        \* 0.3
      blocked_risk_flags       |-> <<"bankruptcy", "fraud", "collections">> ]

RuleOrder ==
    << "min_credit_score", "max_active_loans", "min_annual_income", "max_dti",
       "max_loan_to_income_ratio", "min_employment_score", "blocked_risk_flags" >>

Range(s) == { s[i] : i \in 1..Len(s) }

ActiveStatuses == {"approved", "Active", "active"}

\* db.loans.find({"customer_id": ..., "status": {"$in": [...]}})
find_active_loans(customer_id, ls) ==
    SelectSeq(ls, LAMBDA l : l.customer_id = customer_id /\ l.status \in ActiveStatuses)

\* customer.get("risk_flags") or []
risk_flags_of(customer) ==
    IF customer.has_risk_flags THEN customer.risk_flags ELSE <<>>

Violation(rule, current, required) ==
    << [ rule |-> rule, current_value |-> current, required_value |-> required,
         blocked_flags |-> <<>> ] >>

\* the debt-to-income ratio of Rule 4, a quotient of two floats:
\* [inf, num, den] with the rounding errors of num and den
projected_dti_of(monthly_income, total_monthly_debt) ==
    IF monthly_income.x > 0
    THEN [inf |-> FALSE, num |-> total_monthly_debt.x, den |-> monthly_income.x,
          num_err |-> total_monthly_debt.e, den_err |-> monthly_income.e]
    ELSE IF total_monthly_debt.x > 0
         THEN [inf |-> TRUE, num |-> 1, den |-> 0, num_err |-> 0, den_err |-> 0]
         ELSE [inf |-> FALSE, num |-> 0, den |-> 1, num_err |-> 0, den_err |-> 0]

\* dti > threshold, threshold in 1/10000.  The quotient num / den is rounded
\* to 53 bits.  Where the exact ratio differs from the threshold the rounding
\* errors cannot change the comparison.  Where it equals the threshold 0.5,
\* the float above 0.5 is 0.5 + 2^-53, so the quotient exceeds 0.5 exactly
\* when 2 * num > den * (1 + 2^-53) holds for the rounded num and den.
dti_exceeds(dti, threshold) ==
    \/ dti.inf
    \/ dti.num * Scale > threshold * dti.den
    \/ /\ dti.num * Scale = threshold * dti.den
       /\ LET g == dti.den_err - 2 * dti.num_err + 2^(ErrExp - 53) * dti.den
          IN  g < 0 \/ (g = 0 /\ dti.den_err < 0)

round_dti(dti) == IF dti.inf THEN Inf ELSE Num(Round4(dti.num, dti.den))

\* the seven rule checks, each <<>> (passed) or a one-entry list (violated)
rule_checks(customer, loan_amount, active_loans) ==
    LET R == LOAN_ELIGIBILITY_RULES
        credit_score      == customer.credit_score
        active_loan_count == Len(active_loans)
        annual_income     == customer.annual_income
        monthly_income    == IF annual_income > 0 THEN fdiv12(annual_income)
                                                  ELSE fdiv12(0)
        existing_monthly_debt == fsum(active_loans)
        proposed_monthly_debt == fdiv12(loan_amount)
        total_monthly_debt    == fadd(existing_monthly_debt, proposed_monthly_debt)
        dti               == projected_dti_of(monthly_income, total_monthly_debt)
        employment_score  == calculate_employment_score(customer)
        risk_flags        == risk_flags_of(customer)
        blocked_flags     == SelectSeq(risk_flags,
                                 LAMBDA f : f \in Range(R.blocked_risk_flags))
    IN  << IF credit_score < R.min_credit_score
           THEN Violation("min_credit_score", Num(credit_score), Num(R.min_credit_score))
           ELSE <<>>,
           IF active_loan_count >= R.max_active_loans
           THEN Violation("max_active_loans", Num(active_loan_count), Num(R.max_active_loans))
           ELSE <<>>,
           IF annual_income < R.min_annual_income
           THEN Violation("min_annual_income", Num(annual_income), Num(R.min_annual_income))
           ELSE <<>>,
           IF dti_exceeds(dti, R.max_dti)
           THEN Violation("max_dti", round_dti(dti), Num(R.max_dti))
           ELSE <<>>,
           IF annual_income > 0 /\ loan_amount * Scale > R.max_loan_to_income_ratio * annual_income
           THEN Violation("max_loan_to_income_ratio",
                          Num(Round4(loan_amount, annual_income)),
                          Num(R.max_loan_to_income_ratio))
           ELSE <<>>,
           IF employment_score < R.min_employment_score
           THEN Violation("min_employment_score", Num(employment_score),
                          Num(R.min_employment_score))
           ELSE <<>>,
           IF blocked_flags # <<>>
           THEN << [ rule |-> "blocked_risk_flags", current_value |-> Null,
                     required_value |-> Null, blocked_flags |-> blocked_flags ] >>
           ELSE <<>> >>

\* variant: the evaluation stops at the first violated rule
append_all_short_circuit(checks) ==
    IF \A i \in 1..7 : checks[i] = <<>> THEN <<>>
    ELSE checks[CHOOSE i \in 1..7 :
                    checks[i] # <<>> /\ \A j \in 1..(i - 1) : checks[j] = <<>>]

\* variant: Rule 5 is checked before Rule 4
append_all_swapped(checks) ==
    checks[1] \o checks[2] \o checks[3] \o checks[5] \o checks[4] \o checks[6] \o checks[7]

\* the violations list after all the appends of check_loan_eligibility
append_all(checks) ==
    checks[1] \o checks[2] \o checks[3] \o checks[4] \o checks[5] \o checks[6] \o checks[7]

eligibility_details(customer, loan_amount, active_loans) ==
    LET annual_income     == customer.annual_income
        monthly_income    == IF annual_income > 0 THEN annual_income ELSE 0
        existing_monthly_debt == SumBalance(active_loans)
        total_monthly_debt    == existing_monthly_debt + loan_amount
        dti               == projected_dti_of([x |-> monthly_income, e |-> 0],
                                              [x |-> total_monthly_debt, e |-> 0])
    IN  [ credit_score      |-> customer.credit_score,
          active_loan_count |-> Len(active_loans),
          annual_income     |-> annual_income,
          current_dti       |-> IF monthly_income > 0
                                THEN Num(Round4(existing_monthly_debt, monthly_income))
                                ELSE Null,
          projected_dti     |-> IF dti.inf THEN Null ELSE Num(Round4(dti.num, dti.den)),
          loan_to_income_ratio |-> IF annual_income > 0
                                   THEN Num(Round4(loan_amount, annual_income))
                                   ELSE Null,
          employment_score  |-> calculate_employment_score(customer),
          risk_flags        |-> risk_flags_of(customer) ]

check_loan_eligibility(customer, loan_amount, ls) ==
    LET active_loans == find_active_loans(customer.customer_id, ls)
        violations   == append_all(rule_checks(customer, loan_amount, active_loans))
    IN  [ eligible   |-> Len(violations) = 0,
          violations |-> violations,
          details    |-> eligibility_details(customer, loan_amount, active_loans) ]

----------------------------------------------------------------------------
(* models.py: LoanRequest and Loan *)

PurposeLiteral == {"cars", "house", "personal", "business", "other"}

\* pydantic validation of the JSON body against LoanRequest
LoanRequest_valid(body) == body.purpose \in PurposeLiteral

\* the LoanRequest object: declared fields only, defaults applied,
\* undeclared keys of the body dropped
LoanRequest(body) ==
    [ customer_id   |-> body.customer_id,
      amount        |-> body.amount,
      purpose       |-> body.purpose,
      force_approve |-> IF "force_approve" \in DOMAIN body
                        THEN body.force_approve ELSE FALSE ]

\* request.<name> raises AttributeError unless <name> is a field of the model
has_attr(req, name) == name \in DOMAIN req

\* response_model=Loan: the fields of the Loan model
Loan(doc) ==
    [ loan_id           |-> doc.loan_id,
      customer_id       |-> doc.customer_id,
      amount            |-> doc.amount,
      status            |-> doc.status,
      remaining_balance |-> doc.remaining_balance,
      purpose           |-> doc.purpose ]

----------------------------------------------------------------------------
(* apply_for_loan *)

\* variant: force_approve skips the hard-rule rejection
hard_rules_reject_overridable(eligibility, req) ==
    ~eligibility.eligible /\ ~req.force_approve

\* STEP 1: "if not eligibility['eligible']"
hard_rules_reject(eligibility, req) == ~eligibility.eligible

\* STEP 2: the soft rules and the reviewer's flags
decide(customer, req, user_override, user_reject) ==
    IF user_reject
    THEN [ status |-> "denied", approved |-> "False",
           decision_source |-> "user_override",
           decision_reason |-> "manual rejection by advisor" ]
    ELSE IF user_override
    THEN [ status |-> "active", approved |-> "True",
           decision_source |-> "user_override",
           decision_reason |-> "manual approval by advisor (eligibility verified)" ]
    ELSE IF customer.credit_score < 650
    THEN [ status |-> "manual_review", approved |-> "None",
           decision_source |-> "system_auto",
           decision_reason |-> "credit_score_below_650_needs_review" ]
    ELSE IF req.amount * 10 > customer.annual_income * 3
    THEN [ status |-> "manual_review", approved |-> "None",
           decision_source |-> "system_auto",
           decision_reason |-> "amount_exceeds_30pct_income" ]
    ELSE [ status |-> "active", approved |-> "True",
           decision_source |-> "system_auto",
           decision_reason |-> "meets_all_criteria" ]

new_loan(req, decision, eligibility, ls) ==
    [ loan_id             |-> Len(ls) + 1,
      customer_id         |-> req.customer_id,
      amount              |-> req.amount,
      status              |-> decision.status,
      approved            |-> decision.approved,
      remaining_balance   |-> req.amount,
      purpose             |-> req.purpose,
      decision_source     |-> decision.decision_source,
      decision_reason     |-> decision.decision_reason,
      eligibility_details |-> eligibility.details ]

\* variant: the payload names the first violation only
rejection_detail_first_only(eligibility) ==
    [ op |-> "apply", http |-> 403,
      error |-> "eligibility requirements not met",
      violations |-> SubSeq(eligibility.violations, 1, 1),
      details |-> eligibility.details,
      force_approve_allowed |-> FALSE ]

\* HTTPException(status_code=403, detail={...})
rejection_detail(eligibility) ==
    [ op |-> "apply", http |-> 403,
      error |-> "eligibility requirements not met",
      violations |-> eligibility.violations,
      details |-> eligibility.details,
      force_approve_allowed |-> FALSE ]

\* variant: the loan is decided and inserted whatever the hard rules said
apply_finish_ungated(req, customer, eligibility, ls) ==
    LET decision == decide(customer, req, req.force_approve, FALSE)
        doc      == new_loan(req, decision, eligibility, ls)
    IN  [ response |-> [op |-> "apply", http |-> 200, loan |-> Loan(doc)],
          loans |-> Append(ls, doc) ]

\* the handler from the verdict of the hard rules on: ls is the loan
\* collection at the time of the insert
apply_finish(req, customer, eligibility, ls) ==
    IF hard_rules_reject(eligibility, req)
    THEN [ response |-> rejection_detail(eligibility), loans |-> ls ]
    ELSE IF ~has_attr(req, "force_approve") \/ ~has_attr(req, "force_reject")
    THEN [ response |-> [op |-> "apply", http |-> 500, error |-> "AttributeError"],
           loans |-> ls ]
    ELSE
    LET user_override == req.force_approve
        user_reject   == req.force_reject
        decision      == decide(customer, req, user_override, user_reject)
        doc           == new_loan(req, decision, eligibility, ls)
    IN  [ response |-> [op |-> "apply", http |-> 200, loan |-> Loan(doc)],
          loans |-> Append(ls, doc) ]

\* the handler: its response and the loan collection it leaves
apply_for_loan(body, custs, ls) ==
    IF ~LoanRequest_valid(body)
    THEN [ response |-> [op |-> "apply", http |-> 422, error |-> "validation"],
           loans |-> ls ]
    ELSE
    LET req == LoanRequest(body) IN
    IF req.customer_id \notin DOMAIN custs
    THEN [ response |-> [op |-> "apply", http |-> 404, error |-> "Customer does not exist"],
           loans |-> ls ]
    ELSE
    LET customer    == custs[req.customer_id]
        eligibility == check_loan_eligibility(customer, req.amount, ls)
    IN  apply_finish(req, customer, eligibility, ls)

----------------------------------------------------------------------------
(* check_eligibility, calculate_dti, get_employment_score *)

check_eligibility(customer_id, amount, custs, ls) ==
    IF customer_id \notin DOMAIN custs
    THEN [op |-> "check", http |-> 404, error |-> "Customer not found"]
    ELSE
    LET eligibility == check_loan_eligibility(custs[customer_id], amount, ls)
    IN  [ op |-> "check", http |-> 200,
          customer_id |-> customer_id,
          loan_amount |-> amount,
          eligible    |-> eligibility.eligible,
          violations  |-> eligibility.violations,
          details     |-> eligibility.details ]

\* db.loans.find({"customer_id": customer_id})
find_customer_loans(customer_id, ls) ==
    SelectSeq(ls, LAMBDA l : l.customer_id = customer_id)

\* "if monthly_income <= 0: dti = None ... else: dti = debt / income"
display_dti(monthly_income, existing_monthly_debt) ==
    IF monthly_income <= 0 THEN Null
    ELSE Num(Round4(existing_monthly_debt, monthly_income))

\* variant: only a negative income is taken as invalid
display_risk_level_negative_only(monthly_income, existing_monthly_debt) ==
    IF monthly_income < 0 THEN "invalid_income"
    ELSE IF existing_monthly_debt * 100 <= 35 * monthly_income THEN "good"
    ELSE IF existing_monthly_debt * 100 <= 45 * monthly_income THEN "borderline"
    ELSE "high_risk"

display_risk_level(monthly_income, existing_monthly_debt) ==
    IF monthly_income <= 0 THEN "invalid_income"
    ELSE IF existing_monthly_debt * 100 <= 35 * monthly_income THEN "good"
    ELSE IF existing_monthly_debt * 100 <= 45 * monthly_income THEN "borderline"
    ELSE "high_risk"

calculate_dti(customer_id, custs, ls) ==
    IF customer_id \notin DOMAIN custs
    THEN [op |-> "dti", http |-> 404, error |-> "Customer not found"]
    ELSE
    LET customer_loans == find_customer_loans(customer_id, ls)
        monthly_income == custs[customer_id].annual_income
        existing_monthly_debt == SumBalance(customer_loans)
    IN  [ op |-> "dti", http |-> 200,
          customer_id |-> customer_id,
          existing_monthly_debt |-> existing_monthly_debt,
          dti |-> display_dti(monthly_income, existing_monthly_debt),
          risk_level |-> display_risk_level(monthly_income, existing_monthly_debt),
          total_loans_count |-> Len(customer_loans) ]

get_employment_score(customer_id, custs) ==
    IF customer_id \notin DOMAIN custs
    THEN [op |-> "employment_score", http |-> 404, error |-> "Customer not found"]
    ELSE
    LET score == calculate_employment_score(custs[customer_id])
    IN  [ op |-> "employment_score", http |-> 200,
          customer_id |-> customer_id,
          employment_score |-> score,
          level |-> IF score >= 10 THEN "excellent"
                    ELSE IF score >= 7 THEN "good"
                    ELSE IF score >= 5 THEN "medium"
                    ELSE IF score >= 3 THEN "low"
                    ELSE "unstable" ]

----------------------------------------------------------------------------
(* analytics_loan_summary, send_loan_approval_sms *)

RECURSIVE SumAmount(_)
\* sum(loan["amount"] for loan in ls)
SumAmount(ls) ==
    IF ls = <<>> THEN 0 ELSE Head(ls).amount + SumAmount(Tail(ls))

\* round(num / den, 2) in units of 1/100, den > 0 (round half to even)
Round2(num, den) ==
    LET q == (200 * num) \div (2 * den)
        r == (200 * num) % (2 * den)
    IN  IF r < den THEN q
        ELSE IF r > den THEN q + 1
        ELSE IF q % 2 = 0 THEN q ELSE q + 1

\* GET /analytics/loan-summary
analytics_loan_summary(ls) ==
    IF ls = <<>>
    THEN [op |-> "analytics", http |-> 200, message |-> "No loans found"]
    ELSE LET with(st) == SelectSeq(ls, LAMBDA l : l.status = st)
         IN  [ op |-> "analytics", http |-> 200,
               total_loans   |-> Len(ls),
               approved      |-> Len(with("approved")),
               denied        |-> Len(with("denied")),
               manual_review |-> Len(with("manual_review")),
               total_disbursed_amount |-> SumAmount(with("approved")),
               average_loan_amount    |-> Round2(SumAmount(ls), Len(ls)) ]

\* POST /loans/send-approval-sms; phone: the customer document has a phone
\* number; sms_result: the status Infobip returns
send_loan_approval_sms(customer_id, loan_id, phone, sms_result, custs, ls) ==
    LET found == SelectSeq(ls, LAMBDA l : l.loan_id = loan_id)
    IN  IF customer_id \notin DOMAIN custs
        THEN [op |-> "sms", http |-> 404, detail |-> "Customer not found"]
        ELSE IF found = <<>>
        THEN [op |-> "sms", http |-> 404, detail |-> "Loan not found"]
        ELSE IF found[1].status # "approved"
        THEN [op |-> "sms", http |-> 400,
              detail |-> "Loan is not approved. Cannot send approval SMS."]
        ELSE IF ~phone
        THEN [op |-> "sms", http |-> 400,
              detail |-> "Customer phone number is not available"]
        ELSE IF sms_result = "failed"
        THEN [op |-> "sms", http |-> 500, detail |-> "Failed to send SMS"]
        ELSE [op |-> "sms", http |-> 200, loan_id |-> found[1].loan_id]

----------------------------------------------------------------------------
(* frontend: config.py, session.py, chat.py, streamlit_app.py.  An optional
   value of st.session_state is <<>> (None) or a one-entry list. *)

LoanTool  == "apply_for_loan_loans_apply_post"
EmailTool == "send_custom_email_communications_send_email_post"
CheckTool == "check_eligibility_loans_eligibility__customer_id__get"

TOOLS_REQUIRING_APPROVAL_PATTERNS ==
    << "apply_for_loan_loans_apply_post", "send_custom_email" >>

\* pattern in tool_name.lower(), for the tool names of the MCP server
pattern_in(pattern, tool_name) ==
    \/ tool_name = LoanTool  /\ pattern = "apply_for_loan_loans_apply_post"
    \/ tool_name = EmailTool /\ pattern = "send_custom_email"

tool_requires_approval(tool_name) ==
    \E i \in 1..Len(TOOLS_REQUIRING_APPROVAL_PATTERNS) :
        pattern_in(TOOLS_REQUIRING_APPROVAL_PATTERNS[i], tool_name)

\* st.session_state after init_session_state: pending_approval is None and
\* the key processing_approval is not set
init_session_state ==
    [ pending_approval        |-> <<>>,
      has_processing_approval |-> FALSE,
      processing_approval     |-> <<>>,
      widgets                 |-> {},
      error                   |-> "",
      executed                |-> <<>> ]

\* mcp_client.call_tool: the backend endpoint behind the tool
execute_tool_locally(tool_name, arguments, custs, ls) ==
    IF tool_name = LoanTool
    THEN apply_for_loan(arguments, custs, ls)
    ELSE IF tool_name = CheckTool
    THEN [ response |-> check_eligibility(arguments.customer_id, arguments.amount,
                                          custs, ls),
           loans |-> ls ]
    ELSE [ response |-> [op |-> "tool", http |-> 200], loans |-> ls ]

\* a tool call sent to the backend
Sent(ss, tool_name, arguments) ==
    [ss EXCEPT !.executed = Append(@, [tool_name |-> tool_name, arguments |-> arguments])]

RECURSIVE handle_stream_with_local_tools(_, _, _, _)
\* the function_call items of one response stream, in order: an item that
\* requires approval is stored as pending, any other is executed
handle_stream_with_local_tools(stream, ss, custs, ls) ==
    IF stream = <<>>
    THEN [ ss |-> ss, loans |-> ls, pending_tool_calls |-> <<>>,
           approval_needed |-> FALSE ]
    ELSE
    LET item     == Head(stream)
        approval == tool_requires_approval(item.name)
        pending  == [ tool_call_id |-> item.call_id,
                      tool_name    |-> item.name,
                      arguments    |-> item.arguments ]
    IN  [ handle_stream_with_local_tools(Tail(stream),
              IF approval THEN [ss EXCEPT !.pending_approval = <<pending>>]
                          ELSE Sent(ss, item.name, item.arguments),
              custs,
              IF approval THEN ls
              ELSE execute_tool_locally(item.name, item.arguments, custs, ls).loans)
          EXCEPT !.approval_needed    = approval \/ @,
                 !.pending_tool_calls = IF approval THEN @ ELSE <<item.call_id>> \o @ ]

RECURSIVE continue_with_tool_results(_, _, _, _)
\* "if more_pending and not approval_needed": r is what the stream handler
\* returned, streams the responses not yet read
more_pending(streams, r, custs) ==
    IF r.pending_tool_calls # <<>> /\ ~r.approval_needed
    THEN continue_with_tool_results(Tail(streams), r.ss, custs, r.loans)
    ELSE r

\* streams: the responses the assistant gives to the tool results, in order
continue_with_tool_results(streams, ss, custs, ls) ==
    more_pending(streams,
                 handle_stream_with_local_tools(
                     IF streams = <<>> THEN <<>> ELSE Head(streams), ss, custs, ls),
                 custs)

\* client.responses.create and the handling of its stream.
\* api_ok: responses.create answers; otherwise it raises
stream_response(streams, api_ok, ss, custs, ls) ==
    IF api_ok
    THEN continue_with_tool_results(streams, ss, custs, ls)
    ELSE [ ss |-> ss, loans |-> ls, pending_tool_calls |-> <<>>,
           approval_needed |-> FALSE ]

process_chat(streams, api_ok, ss, custs, ls) ==
    stream_response(streams, api_ok, ss, custs, ls)

handle_approval(approved, ss) ==
    IF ss.pending_approval # <<>>
    THEN [ss EXCEPT !.has_processing_approval = TRUE,
                    !.processing_approval =
                        << [approved |-> approved, data |-> ss.pending_approval[1]] >>,
                    !.pending_approval = <<>>]
    ELSE ss

process_pending_approval(streams, api_ok, ss, custs, ls) ==
    LET approved  == ss.processing_approval[1].approved
        tool_name == ss.processing_approval[1].data.tool_name
        arguments == ss.processing_approval[1].data.arguments
        exec_arguments   == IF approved /\ tool_name = LoanTool
                            THEN ("force_approve" :> TRUE) @@ arguments
                            ELSE arguments
        reject_arguments == ("force_reject" :> TRUE) @@ arguments
        sent     == IF approved THEN exec_arguments ELSE reject_arguments
        executes == approved \/ tool_name = LoanTool
    IN  [ stream_response(streams, api_ok,
              IF executes THEN Sent(ss, tool_name, sent) ELSE ss,
              custs,
              IF executes THEN execute_tool_locally(tool_name, sent, custs, ls).loans
                          ELSE ls)
          EXCEPT !.ss.processing_approval = <<>> ]

\* one run of the script on the chat page.  event: what the user did on the
\* widgets of the last run; the on_click callback runs before the script.
render_chat_page(event, streams, api_ok, ss, custs, ls) ==
    LET ss0 == IF event = "approve" THEN handle_approval(TRUE, ss)
               ELSE IF event = "reject" THEN handle_approval(FALSE, ss)
               ELSE ss
        widgets == IF ss0.pending_approval # <<>>
                   THEN {"approve", "reject"} ELSE {"chat_input"}
    IN  IF ~ss0.has_processing_approval
        THEN [ ss |-> [ss0 EXCEPT !.widgets = {}, !.error = "AttributeError"],
               loans |-> ls ]
        ELSE IF ss0.processing_approval # <<>>
        THEN [ process_pending_approval(streams, api_ok, ss0, custs, ls)
               EXCEPT !.ss.widgets = {}, !.ss.error = "" ]
        ELSE IF event = "chat"
        THEN [ process_chat(streams, api_ok, ss0, custs, ls)
               EXCEPT !.ss.widgets = widgets, !.ss.error = "" ]
        ELSE [ ss |-> [ss0 EXCEPT !.widgets = widgets, !.error = ""], loans |-> ls ]

----------------------------------------------------------------------------
(* The store the backend starts on, and the requests it receives *)

KnownId   == "CUST001"
OtherId   == "CUST002"
UnknownId == "CUST404"

MaxSeedActive == 5
MaxYears == 3

CreditScores  == {499, 500, 650}
AnnualIncomes == {0, 11999, 12000, 60000}
Amounts       == {0, 5000, 18000, 18001, 30001}
EmpAbsent     == "None"
EmploymentTypes ==
    {"permanent", "contract", "part_time", "part-time", "self_employed",
     "unemployed", EmpAbsent}
Tenures == {Absent} \cup (0..MaxYears)

\* risk_flags: key missing or None, or a list
RiskFlagChoices ==
    { [has |-> FALSE, flags |-> <<>>],
      [has |-> TRUE,  flags |-> <<>>],
      [has |-> TRUE,  flags |-> <<"late_payment">>],
      [has |-> TRUE,  flags |-> <<"late_payment", "fraud">>] }

EmploymentProfiles ==
    { [employment_type |-> "part_time",  years_with_employer |-> Absent, business_years |-> Absent],
      [employment_type |-> "unemployed", years_with_employer |-> Absent, business_years |-> Absent] }

AllEmploymentProfiles ==
    [employment_type : EmploymentTypes, years_with_employer : Tenures, business_years : Tenures]

CustomerDoc(id, cs, inc, emp, rf) ==
    [ customer_id         |-> id,
      credit_score        |-> cs,
      annual_income       |-> inc,
      employment_type     |-> emp.employment_type,
      years_with_employer |-> emp.years_with_employer,
      business_years      |-> emp.business_years,
      has_risk_flags      |-> rf.has,
      risk_flags          |-> rf.flags ]

\* a loan document written by the earlier version of the backend
SeedLoan(id, cid, st) ==
    [ loan_id |-> id, customer_id |-> cid, amount |-> 3000, status |-> st,
      remaining_balance |-> 3000, purpose |-> "personal" ]

SeedStatus(i) == <<"approved", "Active", "active">>[(i % 3) + 1]

\* k active loans of the customer, then (optionally) a denied and a
\* manual_review loan of the customer and an active loan of another customer
SeedStore(k, others) ==
    LET act == [i \in 1..k |-> SeedLoan(i, KnownId, SeedStatus(i))]
        ina == IF others
               THEN << SeedLoan(k + 1, KnownId, "denied"),
                       SeedLoan(k + 2, KnownId, "manual_review") >>
               ELSE <<>>
        oth == IF others
               THEN << SeedLoan(k + Len(ina) + 1, OtherId, "active") >>
               ELSE <<>>
    IN  act \o ina \o oth

EmptyFcn == [x \in {} |-> TRUE]
\* a reviewer flag of the JSON body: key omitted, or true
FlagChoices(name) == {EmptyFcn, name :> TRUE}

ApplyBodies ==
    { [customer_id |-> KnownId, amount |-> a, purpose |-> "personal"] @@ fa @@ fr :
        a \in Amounts, fa \in FlagChoices("force_approve"),
        fr \in FlagChoices("force_reject") }
    \cup
    { [customer_id |-> UnknownId, amount |-> 5000, purpose |-> "personal"] @@ fa :
        fa \in FlagChoices("force_approve") }
    \cup
    { [customer_id |-> KnownId, amount |-> 5000, purpose |-> p] @@ fr :
        p \in {"yacht"}, fr \in FlagChoices("force_reject") }

RequestIds == {KnownId, UnknownId}

CheckRequests ==
    { [customer_id |-> KnownId, amount |-> a] : a \in Amounts }
    \cup { [customer_id |-> UnknownId, amount |-> 5000] }

SeedActiveCounts == {0, MaxSeedActive - 1, MaxSeedActive}

\* the function calls the assistant emits in one response stream
ChatItems ==
    [ loan  |-> [ name |-> LoanTool, call_id |-> "loan",
                  arguments |-> [customer_id |-> KnownId, amount |-> 5000,
                                 purpose |-> "personal"] ],
      email |-> [ name |-> EmailTool, call_id |-> "email",
                  arguments |-> [customer_id |-> KnownId] ],
      check |-> [ name |-> CheckTool, call_id |-> "check",
                  arguments |-> [customer_id |-> KnownId, amount |-> 5000] ] ]

ChatStreams ==
    { <<>>, <<ChatItems.loan>>, <<ChatItems.email>>, <<ChatItems.check>>,
      <<ChatItems.check, ChatItems.loan>>, <<ChatItems.loan, ChatItems.email>> }

ChatStreamLists ==
    { <<s>> : s \in ChatStreams } \cup { <<s, t>> : s, t \in ChatStreams }

\* the tool calls one session sends, at most
MaxExecuted == 3

\* what the user can do on the page as the last run left it
ChatEvents(ss) ==
    {"load"}
    \cup (IF "approve" \in ss.widgets THEN {"approve"} ELSE {})
    \cup (IF "reject" \in ss.widgets THEN {"reject"} ELSE {})
    \cup (IF "chat_input" \in ss.widgets THEN {"chat"} ELSE {})

\* the workers that serve applications concurrently
Procs == {1, 2}
Idle == [p \in Procs |-> [pc |-> "idle"]]

RaceBodies ==
    { [customer_id |-> KnownId, amount |-> 5000, purpose |-> "personal"] @@ fa @@ fr :
        fa \in FlagChoices("force_approve"), fr \in FlagChoices("force_reject") }

----------------------------------------------------------------------------
(* The state machine *)

Init ==
    /\ \E cs \in CreditScores, inc \in AnnualIncomes,
          emp \in EmploymentProfiles, rf \in RiskFlagChoices :
          customers = (KnownId :> CustomerDoc(KnownId, cs, inc, emp, rf))
    /\ \E k \in SeedActiveCounts, others \in BOOLEAN :
          loans = SeedStore(k, others)
    /\ request = [op |-> "none"]
    /\ response = [op |-> "none"]
    /\ inflight = Idle
    /\ chat = init_session_state

\* the employment fields range over the whole table; the rest is fixed
InitScore ==
    /\ \E emp \in AllEmploymentProfiles :
          customers = (KnownId :> CustomerDoc(KnownId, 720, 60000, emp,
                                              [has |-> FALSE, flags |-> <<>>]))
    /\ loans = <<>>
    /\ request = [op |-> "none"]
    /\ response = [op |-> "none"]
    /\ inflight = Idle
    /\ chat = init_session_state

\* variant: a rejected application marks the customer's earlier loans denied
ApplyForLoan_marking ==
    \E body \in ApplyBodies :
        LET out == apply_for_loan(body, customers, loans)
        IN  /\ request' = [op |-> "apply", body |-> body]
            /\ response' = out.response
            /\ loans' = IF out.response.http = 403
                        THEN [i \in 1..Len(out.loans) |->
                                IF out.loans[i].customer_id = body.customer_id
                                THEN [out.loans[i] EXCEPT !.status = "denied"]
                                ELSE out.loans[i]]
                        ELSE out.loans
            /\ UNCHANGED <<customers, inflight, chat>>

\* POST /loans/apply
ApplyForLoan ==
    \E body \in ApplyBodies :
        LET out == apply_for_loan(body, customers, loans)
        IN  /\ request' = [op |-> "apply", body |-> body]
            /\ response' = out.response
            /\ loans' = out.loans
            /\ UNCHANGED <<customers, inflight, chat>>

\* variant: the check stores its evaluation as a loan under review
CheckEligibility_recording ==
    \E q \in CheckRequests :
        /\ request' = [op |-> "check", customer_id |-> q.customer_id, amount |-> q.amount]
        /\ response' = check_eligibility(q.customer_id, q.amount, customers, loans)
        /\ loans' = Append(loans, [ loan_id |-> Len(loans) + 1,
                                    customer_id |-> q.customer_id,
                                    amount |-> q.amount, status |-> "manual_review",
                                    remaining_balance |-> q.amount,
                                    purpose |-> "other" ])
        /\ UNCHANGED <<customers, inflight, chat>>

\* GET /loans/eligibility/{customer_id}
CheckEligibility ==
    \E q \in CheckRequests :
        /\ request' = [op |-> "check", customer_id |-> q.customer_id, amount |-> q.amount]
        /\ response' = check_eligibility(q.customer_id, q.amount, customers, loans)
        /\ UNCHANGED <<customers, loans, inflight, chat>>

\* GET /customers/{customer_id}/dti
CalculateDti ==
    \E cid \in RequestIds :
        /\ request' = [op |-> "dti", customer_id |-> cid]
        /\ response' = calculate_dti(cid, customers, loans)
        /\ UNCHANGED <<customers, loans, inflight, chat>>

\* GET /customers/{customer_id}/employment_score
GetEmploymentScore ==
    \E cid \in RequestIds :
        /\ request' = [op |-> "employment_score", customer_id |-> cid]
        /\ response' = get_employment_score(cid, customers)
        /\ UNCHANGED <<customers, loans, inflight, chat>>

Next ==
    \/ ApplyForLoan
    \/ CheckEligibility
    \/ CalculateDti
    \/ GetEmploymentScore

Spec == Init /\ [][Next]_vars

\* Concurrent applications.  The handler suspends at its awaits: the reads
\* (find_one, to_list) and the write (insert_one).  ApplyBegin runs it up to
\* the verdict of the hard rules, ApplyEnd from there to its response.

InitRace ==
    /\ \E cs \in CreditScores :
          customers = (KnownId :> CustomerDoc(KnownId, cs, 60000,
                          [employment_type |-> "part_time",
                           years_with_employer |-> Absent, business_years |-> Absent],
                          [has |-> FALSE, flags |-> <<>>]))
    /\ \E k \in SeedActiveCounts : loans = SeedStore(k, FALSE)
    /\ request = [op |-> "none"]
    /\ response = [op |-> "none"]
    /\ inflight = Idle
    /\ chat = init_session_state

ApplyBegin(p) ==
    /\ inflight[p].pc = "idle"
    /\ \E body \in RaceBodies :
          LET req      == LoanRequest(body)
              customer == customers[req.customer_id]
          IN  inflight' = [inflight EXCEPT ![p] =
                  [ pc |-> "evaluated", body |-> body,
                    eligibility |-> check_loan_eligibility(customer, req.amount, loans) ]]
    /\ UNCHANGED <<customers, loans, request, response, chat>>

ApplyEnd(p) ==
    /\ inflight[p].pc = "evaluated"
    /\ LET body == inflight[p].body
           req  == LoanRequest(body)
           out  == apply_finish(req, customers[req.customer_id],
                                inflight[p].eligibility, loans)
       IN  /\ request' = [op |-> "apply", body |-> body]
           /\ response' = out.response
           /\ loans' = out.loans
           /\ inflight' = [inflight EXCEPT ![p].pc = "done"]
    /\ UNCHANGED <<customers, chat>>

NextRace ==
    \E p \in Procs : ApplyBegin(p) \/ ApplyEnd(p)

SpecRace == InitRace /\ [][NextRace]_vars

SpecScore == InitScore /\ [][Next]_vars

\* customers at the max_dti boundary: with the model's amounts the ratio is
\* exactly 0.5 at (one loan of 3000, amount 5000, income 16000) and at
\* (no loan, amount 18000, income 36000)
InitDti ==
    /\ \E inc \in {0, 16000, 36000} :
          customers = (KnownId :> CustomerDoc(KnownId, 650, inc,
                          [employment_type |-> "part_time",
                           years_with_employer |-> Absent, business_years |-> Absent],
                          [has |-> FALSE, flags |-> <<>>]))
    /\ \E k \in {0, 1} : loans = SeedStore(k, FALSE)
    /\ request = [op |-> "none"]
    /\ response = [op |-> "none"]
    /\ inflight = Idle
    /\ chat = init_session_state

SpecDti == InitDti /\ [][Next]_vars

\* The endpoints that read the status of stored loans, next to the
\* application endpoint

InitOps ==
    /\ \E cs \in CreditScores :
          customers = (KnownId :> CustomerDoc(KnownId, cs, 60000,
                          [employment_type |-> "part_time",
                           years_with_employer |-> Absent, business_years |-> Absent],
                          [has |-> FALSE, flags |-> <<>>]))
    /\ \E k \in SeedActiveCounts, others \in BOOLEAN : loans = SeedStore(k, others)
    /\ request = [op |-> "none"]
    /\ response = [op |-> "none"]
    /\ inflight = Idle
    /\ chat = init_session_state

\* GET /analytics/loan-summary
AnalyticsLoanSummary ==
    /\ request' = [op |-> "analytics"]
    /\ response' = analytics_loan_summary(loans)
    /\ UNCHANGED <<customers, loans, inflight, chat>>

\* POST /loans/send-approval-sms
SendLoanApprovalSms ==
    \E cid \in RequestIds, lid \in 1..(Len(loans) + 1),
       phone \in BOOLEAN, sms_result \in {"sent", "failed"} :
        /\ request' = [op |-> "sms", customer_id |-> cid, loan_id |-> lid]
        /\ response' = send_loan_approval_sms(cid, lid, phone, sms_result,
                                              customers, loans)
        /\ UNCHANGED <<customers, loans, inflight, chat>>

\* a run of streamlit_app.py on the chat page
ChatPageRun ==
    /\ Len(chat.executed) < MaxExecuted
    /\ \E event \in ChatEvents(chat), streams \in ChatStreamLists, api_ok \in BOOLEAN :
          \E out \in {render_chat_page(event, streams, api_ok, chat, customers, loans)} :
              /\ chat' = out.ss
              /\ loans' = out.loans
              /\ request' = [op |-> "chat", event |-> event]
              /\ response' = [op |-> "chat", error |-> out.ss.error]
    /\ UNCHANGED <<customers, inflight>>

\* the chat page and the backend it calls, which other clients call too
NextChat ==
    \/ ChatPageRun
    \/ ApplyForLoan
    \/ CheckEligibility

SpecChat == InitOps /\ [][NextChat]_vars

NextOps ==
    \/ ApplyForLoan
    \/ AnalyticsLoanSummary
    \/ SendLoanApprovalSms

SpecOps == InitOps /\ [][NextOps]_vars

----------------------------------------------------------------------------
(* Properties *)

BodyFlag(body, name) == name \in DOMAIN body /\ body[name]

\* the body is a well-formed application of a customer of the store
Evaluated(body) ==
    LoanRequest_valid(body) /\ body.customer_id \in DOMAIN customers

\* the hard rules on the store as it is before the step
HardRulesPass(body) ==
    check_loan_eligibility(customers[body.customer_id], body.amount, loans).eligible

\* the step inserts exactly one loan, with this decision
Created(ls, ls2, status, source, reason) ==
    /\ Len(ls2) = Len(ls) + 1
    /\ SubSeq(ls2, 1, Len(ls)) = ls
    /\ ls2[Len(ls2)].status = status
    /\ ls2[Len(ls2)].decision_source = source
    /\ ls2[Len(ls2)].decision_reason = reason

\* C1: an application that fails a hard rule ends in the 403 rejection and
\* inserts no loan, whatever force_approve and force_reject are.
C1_HardRulesFinal ==
    [][ (request'.op = "apply" /\ Evaluated(request'.body)
            /\ ~HardRulesPass(request'.body))
        => (response'.http = 403 /\ loans' = loans) ]_vars

C1_Witness ==
    /\ request.op = "apply"
    /\ BodyFlag(request.body, "force_approve")
    /\ BodyFlag(request.body, "force_reject")
    /\ response.http = 403
    /\ response.violations # <<>>

\* C2: when the hard rules pass and force_reject is set, the application
\* creates a loan with status denied, decision_source user_override and
\* decision_reason "manual rejection by advisor", also with force_approve set.
C2_RejectPrecedence ==
    [][ (request'.op = "apply" /\ Evaluated(request'.body)
            /\ HardRulesPass(request'.body)
            /\ BodyFlag(request'.body, "force_reject"))
        => (response'.http = 200
            /\ Created(loans, loans', "denied", "user_override",
                       "manual rejection by advisor")) ]_vars

\* C3: the parsed loan application carries both reviewer flags: each is
\* readable, equal to the body's value when the body sets it and unset when
\* the body omits it.
C3_FlagsCarried ==
    (request.op = "apply" /\ LoanRequest_valid(request.body)) =>
        LET req == LoanRequest(request.body)
        IN  /\ has_attr(req, "force_approve")
            /\ req.force_approve = BodyFlag(request.body, "force_approve")
            /\ has_attr(req, "force_reject")
            /\ req.force_reject = BodyFlag(request.body, "force_reject")

\* C4: when the hard rules pass, force_approve is set and force_reject is not,
\* the application creates a loan with status active, decision_source
\* user_override and the manual-approval reason.
C4_ForceApprove ==
    [][ (request'.op = "apply" /\ Evaluated(request'.body)
            /\ HardRulesPass(request'.body)
            /\ BodyFlag(request'.body, "force_approve")
            /\ ~BodyFlag(request'.body, "force_reject"))
        => (response'.http = 200
            /\ Created(loans, loans', "active", "user_override",
                       "manual approval by advisor (eligibility verified)")) ]_vars

\* C5: when the hard rules pass and no flag is set, the application creates a
\* system_auto loan: manual_review for a credit score below 650, else
\* manual_review for an amount above 30% of the income, else active.
C5_SoftThresholds ==
    [][ (request'.op = "apply" /\ Evaluated(request'.body)
            /\ HardRulesPass(request'.body)
            /\ ~BodyFlag(request'.body, "force_approve")
            /\ ~BodyFlag(request'.body, "force_reject"))
        => LET c == customers[request'.body.customer_id]
               a == request'.body.amount
           IN  /\ response'.http = 200
               /\ IF c.credit_score < 650
                  THEN Created(loans, loans', "manual_review", "system_auto",
                               "credit_score_below_650_needs_review")
                  ELSE IF 10 * a > 3 * c.annual_income
                  THEN Created(loans, loans', "manual_review", "system_auto",
                               "amount_exceeds_30pct_income")
                  ELSE Created(loans, loans', "active", "system_auto",
                               "meets_all_criteria") ]_vars

\* the violation condition of each rule of the policy table
RuleViolated(rule, c, amount, ls) ==
    LET act  == SelectSeq(ls, LAMBDA l : l.customer_id = c.customer_id
                                /\ l.status \in {"approved", "Active", "active"})
        debt == SumBalance(act)
    IN  CASE rule = "min_credit_score"  -> c.credit_score < 500
          [] rule = "max_active_loans"  -> Len(act) >= 5
          [] rule = "min_annual_income" -> c.annual_income < 12000
          [] rule = "max_dti" ->
                IF c.annual_income > 0
                THEN 2 * (debt + amount) > c.annual_income
                ELSE debt + amount > 0
          [] rule = "max_loan_to_income_ratio" ->
                c.annual_income > 0 /\ 2 * amount > c.annual_income
          [] rule = "min_employment_score" ->
                calculate_employment_score(c) < 3
          [] rule = "blocked_risk_flags" ->
                c.has_risk_flags
                /\ Range(c.risk_flags) \cap {"bankruptcy", "fraud", "collections"} # {}

RuleIndex(rule) == CHOOSE i \in 1..Len(RuleOrder) : RuleOrder[i] = rule

\* C7: the violations are listed in the order of the rule table.
C7_ViolationsOrdered ==
    ("violations" \in DOMAIN response) =>
        \A i, j \in 1..Len(response.violations) :
            i < j => RuleIndex(response.violations[i].rule)
                        < RuleIndex(response.violations[j].rule)

C7_Witness ==
    /\ response.op = "check"
    /\ response.http = 200
    /\ Len(response.violations) = 2
    /\ response.violations[1].rule = "max_dti"
    /\ response.violations[2].rule = "max_loan_to_income_ratio"

\* the policy table of the employment stability score, in tenths
ScoreTable(c) ==
    LET years    == c.years_with_employer
        business == c.business_years
    IN  CASE c.employment_type = "permanent" ->
                IF years # Absent /\ years >= 2 THEN 10 ELSE 7
          [] c.employment_type = "contract" -> 5
          [] c.employment_type \in {"part_time", "part-time"} -> 3
          [] c.employment_type = "self_employed" ->
                IF business # Absent /\ business >= 3 THEN 6 ELSE 4
          [] OTHER -> 0

\* C8: the employment score is defined for every customer, lies in [0, 1]
\* and is the value of the policy table.
C8_EmploymentScore ==
    (response.op = "employment_score" /\ response.http = 200) =>
        /\ response.employment_score \in 0..10
        /\ response.employment_score = ScoreTable(customers[response.customer_id])

C8_Witness ==
    /\ response.op = "employment_score"
    /\ response.http = 200
    /\ customers[response.customer_id].employment_type = "permanent"
    /\ customers[response.customer_id].years_with_employer = 2
    /\ response.employment_score = 10

\* the loans of a customer that are approved or active
ActiveOf(cid, ls) ==
    SelectSeq(ls, LAMBDA l : l.customer_id = cid
                             /\ l.status \in {"approved", "Active", "active"})

\* C9: a denied or manual_review loan adds nothing to the active-loan count
\* of an evaluation nor to the existing debt of the display DTI.
C9_OnlyActiveLoansCount ==
    /\ (response.op = "check" /\ response.http = 200) =>
          response.details.active_loan_count
              = Len(ActiveOf(response.customer_id, loans))
    /\ (response.op = "dti" /\ response.http = 200) =>
          response.existing_monthly_debt
              = SumBalance(ActiveOf(response.customer_id, loans))

\* C10: for a customer whose annual income is not positive the display DTI
\* is null and the risk level is invalid_income.
C10_InvalidIncome ==
    (response.op = "dti" /\ response.http = 200
        /\ customers[response.customer_id].annual_income <= 0) =>
        (response.dti = Null /\ response.risk_level = "invalid_income")

C10_Witness ==
    /\ response.op = "dti"
    /\ response.http = 200
    /\ customers[response.customer_id].annual_income <= 0
    /\ response.total_loans_count > 0
    /\ response.dti = Null

\* C11: an eligibility check leaves the customers and the loans as they
\* were, and a second check with the same customer and amount on the store it
\* leaves returns the same eligible, violations and details.
C11_CheckReadOnly ==
    [][ request'.op = "check" =>
            /\ customers' = customers
            /\ loans' = loans
            /\ response' = check_eligibility(request'.customer_id, request'.amount,
                                             customers', loans') ]_vars

C11_Witness ==
    /\ request.op = "check"
    /\ response.http = 200
    /\ response.eligible
    /\ response.details.active_loan_count > 0
    /\ Len(loans) > response.details.active_loan_count

\* C12: an application that passes the hard rules adds exactly one loan to
\* the store; one for an unknown customer ends in 404 and one that fails a hard
\* rule in the 403 rejection, both leaving the store unchanged.
C12_CreationCount ==
    [][ (request'.op = "apply" /\ LoanRequest_valid(request'.body)) =>
            IF request'.body.customer_id \notin DOMAIN customers
            THEN response'.http = 404 /\ loans' = loans
            ELSE IF ~HardRulesPass(request'.body)
            THEN response'.http = 403 /\ loans' = loans
            ELSE /\ Len(loans') = Len(loans) + 1
                 /\ SubSeq(loans', 1, Len(loans)) = loans
                 /\ loans'[Len(loans')].customer_id = request'.body.customer_id ]_vars

\* C13: an application that passes the hard rules answers with the created
\* loan record, whose decision_source and decision_reason are those of the
\* stored record.
C13_ResponseCarriesProvenance ==
    [][ (request'.op = "apply" /\ Evaluated(request'.body)
            /\ HardRulesPass(request'.body))
        => /\ response'.http = 200
           /\ Len(loans') = Len(loans) + 1
           /\ {"decision_source", "decision_reason"} \subseteq DOMAIN response'.loan
           /\ response'.loan.decision_source = loans'[Len(loans')].decision_source
           /\ response'.loan.decision_reason = loans'[Len(loans')].decision_reason ]_vars

\* C14: an application is rejected with 403 exactly when the eligibility
\* check of the same customer and amount on the same store reports
\* eligible = false, and the rejection carries the violations and details of
\* that check and force_approve_allowed = false.
C14_RejectionMatchesCheck ==
    [][ (request'.op = "apply" /\ Evaluated(request'.body)) =>
            LET chk == check_eligibility(request'.body.customer_id,
                                         request'.body.amount, customers, loans)
            IN  /\ (response'.http = 403) <=> ~chk.eligible
                /\ response'.http = 403 =>
                      /\ response'.violations = chk.violations
                      /\ response'.details = chk.details
                      /\ response'.force_approve_allowed = FALSE ]_vars

C14_Witness ==
    /\ request.op = "apply"
    /\ response.http = 403
    /\ Len(response.violations) >= 3
    /\ response.force_approve_allowed = FALSE
    /\ check_eligibility(request.body.customer_id, request.body.amount,
                         customers, loans).violations = response.violations

\* C15: an application whose amount is zero or negative, or whose purpose is
\* not one of the five purposes, is refused as invalid input: it is not
\* evaluated and the store is unchanged.
C15_InvalidInputRefused ==
    [][ (request'.op = "apply"
            /\ (request'.body.amount <= 0 \/ request'.body.purpose \notin PurposeLiteral))
        => (response'.http = 422 /\ loans' = loans) ]_vars

\* C16: an application of an existing customer ends with a created loan or
\* with the hard-rule rejection, never with an unhandled exception.
C16_ApplicationTotal ==
    (request.op = "apply" /\ Evaluated(request.body)) =>
        response.http \in {200, 403}

\* C17: no step changes or removes a loan record of the store; a step can
\* only add records after the existing ones.
C17_LoansImmutable ==
    [][ /\ Len(loans') >= Len(loans)
        /\ SubSeq(loans', 1, Len(loans)) = loans ]_vars

C17_Witness ==
    /\ request.op = "apply"
    /\ response.http = 403
    /\ \E i \in 1..Len(loans) :
          loans[i].customer_id = request.body.customer_id /\ loans[i].status = "approved"
    /\ \E i \in 1..Len(loans) :
          loans[i].customer_id = request.body.customer_id /\ loans[i].status = "manual_review"

\* C18: when two applications of a customer with one loan less than the
\* maximum have both passed the hard rules before either has inserted, and
\* both are approved, the customer ends with more active loans than
\* max_active_loans.
C18_RaceExceedsCap ==
    (\A p \in Procs :
        /\ inflight[p].pc = "done"
        /\ inflight[p].eligibility.eligible
        /\ inflight[p].eligibility.details.active_loan_count
              = LOAN_ELIGIBILITY_RULES.max_active_loans - 1
        /\ BodyFlag(inflight[p].body, "force_approve")
        /\ ~BodyFlag(inflight[p].body, "force_reject"))
    => Len(find_active_loans(KnownId, loans)) > LOAN_ELIGIBILITY_RULES.max_active_loans

\* C20: the details of every evaluation hold the eight documented entries,
\* and for a customer with annual_income <= 0 the three ratios current_dti,
\* projected_dti and loan_to_income_ratio are all null.
C20_DetailsSnapshot ==
    (request.op = "check" /\ response.http = 200) =>
        LET d == response.details
        IN  /\ DOMAIN d = {"credit_score", "active_loan_count", "annual_income",
                           "current_dti", "projected_dti", "loan_to_income_ratio",
                           "employment_score", "risk_flags"}
            /\ customers[request.customer_id].annual_income <= 0 =>
                  /\ d.current_dti = Null
                  /\ d.projected_dti = Null
                  /\ d.loan_to_income_ratio = Null

\* C21: with a positive income max_dti is violated exactly when (active
\* balance + amount) / annual_income > 0.50, a ratio of exactly 0.50
\* passing; with an income of 0 or less exactly when the projected debt is
\* greater than 0.
C21_DtiRule ==
    (response.op = "check" /\ response.http = 200) =>
        LET c    == customers[response.customer_id]
            debt == SumBalance(ActiveOf(response.customer_id, loans))
            vs   == response.violations
        IN  (\E i \in 1..Len(vs) : vs[i].rule = "max_dti")
            <=> IF c.annual_income > 0
                THEN 2 * (debt + response.loan_amount) > c.annual_income
                ELSE debt + response.loan_amount > 0

\* the step is an application that passes the hard rules
PassingApply(body) ==
    Evaluated(body) /\ HardRulesPass(body)

\* C22: max_active_loans is violated exactly when the customer has 5 or more
\* active loans; a loan the application creates as active is counted by the
\* evaluations that follow, one created as denied or manual_review is not.
C22_ActiveLoanRule ==
    [][ /\ (response'.op = "check" /\ response'.http = 200) =>
              ((\E i \in 1..Len(response'.violations) :
                    response'.violations[i].rule = "max_active_loans")
               <=> Len(ActiveOf(response'.customer_id, loans')) >= 5)
        /\ (request'.op = "apply" /\ PassingApply(request'.body)) =>
              LET cid    == request'.body.customer_id
                  before == Len(find_active_loans(cid, loans))
                  after  == Len(find_active_loans(cid, loans'))
              IN  /\ Len(loans') = Len(loans) + 1
                  /\ IF loans'[Len(loans')].status = "active"
                     THEN after = before + 1
                     ELSE after = before ]_vars

\* C23: blocked_risk_flags is violated exactly when the customer's
\* risk_flags hold bankruptcy, fraud or collections; absent, null, empty or
\* holding other flags only, they never violate it, and the evaluation
\* answers.
C23_BlockedFlags ==
    (request.op = "check" /\ request.customer_id \in DOMAIN customers) =>
        LET c  == customers[request.customer_id]
            vs == response.violations
        IN  /\ response.http = 200
            /\ (\E i \in 1..Len(vs) : vs[i].rule = "blocked_risk_flags")
               <=> (c.has_risk_flags
                    /\ \E i \in 1..Len(c.risk_flags) :
                          c.risk_flags[i] \in {"bankruptcy", "fraud", "collections"})

C23_Witness ==
    /\ request.op = "check"
    /\ response.http = 200
    /\ customers[request.customer_id].has_risk_flags
    /\ customers[request.customer_id].risk_flags = <<"late_payment">>
    /\ response.eligible
    /\ response.details.risk_flags = <<"late_payment">>

\* C24: the record an application creates has remaining_balance equal to the
\* requested amount, the request's customer_id and purpose, and the details
\* of the evaluation of the store as it was before the insert.
C24_RecordContents ==
    [][ (request'.op = "apply" /\ PassingApply(request'.body)) =>
            LET body == request'.body
                c    == customers[body.customer_id]
                new  == loans'[Len(loans')]
            IN  /\ Len(loans') = Len(loans) + 1
                /\ new.remaining_balance = body.amount
                /\ new.customer_id = body.customer_id
                /\ new.purpose = body.purpose
                /\ new.eligibility_details
                      = check_loan_eligibility(c, body.amount, loans).details ]_vars

\* C25: the record an application creates has a status among denied,
\* manual_review, active and a decision_source among system_auto,
\* user_override; denied comes with user_override only, manual_review with
\* system_auto only, and approved is true for active, false for denied,
\* null for manual_review.
C25_ProvenanceConsistent ==
    [][ (request'.op = "apply" /\ PassingApply(request'.body)) =>
            LET new == loans'[Len(loans')]
            IN  /\ Len(loans') = Len(loans) + 1
                /\ new.status \in {"denied", "manual_review", "active"}
                /\ new.decision_source \in {"system_auto", "user_override"}
                /\ new.status = "denied" => new.decision_source = "user_override"
                /\ new.status = "manual_review" => new.decision_source = "system_auto"
                /\ new.approved = (CASE new.status = "active" -> "True"
                                     [] new.status = "denied" -> "False"
                                     [] OTHER -> "None") ]_vars

\* C26: from a store without loans of the customer, after any sequence of
\* applications the active balance of the customer is at most half the
\* annual income.
C26_ExposureBound ==
    \A cid \in DOMAIN customers :
        2 * SumBalance(ActiveOf(cid, loans)) <= customers[cid].annual_income

C26_Witness ==
    /\ request.op = "apply"
    /\ BodyFlag(request.body, "force_approve")
    /\ request.body.amount > 0
    /\ response.http = 403
    /\ Len(response.violations) = 2
    /\ response.violations[1].rule = "max_dti"
    /\ Len(ActiveOf(request.body.customer_id, loans)) = 0

\* C27: a customer with at most 5 active loans has at most 5 after every
\* step, applications with force_approve included.
C27_ActiveLoanCap ==
    [][ \A cid \in DOMAIN customers :
            Len(ActiveOf(cid, loans)) <= 5 => Len(ActiveOf(cid, loans')) <= 5 ]_vars

C27_Witness ==
    /\ request.op = "apply"
    /\ BodyFlag(request.body, "force_approve")
    /\ ~BodyFlag(request.body, "force_reject")
    /\ response.http = 403
    /\ Len(response.violations) = 1
    /\ response.violations[1].rule = "max_active_loans"
    /\ Len(ActiveOf(request.body.customer_id, loans)) = 5

C29_NeverApproved ==
    [][ (request'.op = "apply" /\ PassingApply(request'.body)
            /\ BodyFlag(request'.body, "force_approve")
            /\ ~BodyFlag(request'.body, "force_reject")) =>
            LET new == loans'[Len(loans')]
                was == analytics_loan_summary(loans)
                now == analytics_loan_summary(loans')
            IN  /\ Len(loans') = Len(loans) + 1
                /\ new.status = "active"
                /\ loans # <<>> =>
                      /\ now.approved = was.approved
                      /\ now.total_disbursed_amount = was.total_disbursed_amount
                /\ send_loan_approval_sms(new.customer_id, new.loan_id, TRUE, "sent",
                                          customers, loans').http = 400 ]_vars

\* C30: a run of the chat page completes, and it sends a tool call that
\* requires approval to the backend only on the user's decision about that
\* pending call, once; a loan application goes out with force_approve set on
\* approval and with force_reject set on rejection, and any other rejected
\* call is not sent.
C30_ApprovalGating ==
    [][ request'.op = "chat" =>
            LET new     == SubSeq(chat'.executed, Len(chat.executed) + 1,
                                  Len(chat'.executed))
                gated   == SelectSeq(new, LAMBDA e : tool_requires_approval(e.tool_name))
                decided == request'.event \in {"approve", "reject"}
                           /\ chat.pending_approval # <<>>
            IN  /\ chat'.error = ""
                /\ gated # <<>> =>
                      /\ decided
                      /\ Len(gated) = 1
                      /\ gated[1].tool_name = chat.pending_approval[1].tool_name
                      /\ gated[1].tool_name = LoanTool =>
                            IF request'.event = "approve"
                            THEN BodyFlag(gated[1].arguments, "force_approve")
                            ELSE BodyFlag(gated[1].arguments, "force_reject")
                      /\ request'.event = "reject" => gated[1].tool_name = LoanTool
                /\ (decided /\ (request'.event = "approve"
                                \/ chat.pending_approval[1].tool_name = LoanTool))
                      => gated # <<>> ]_vars

====
